---- MODULE Spec2Model ----
(***************************************************************************)
(* Model of src/main.py: a single-file Streamlit chat page.                *)
(*                                                                         *)
(* Python values are tagged records [t, v]:                                *)
(*   None  -> [t |-> "null"]      bool -> [t |-> "bool"]                   *)
(*   int   -> [t |-> "num"]       str  -> [t |-> "str",  v |-> characters] *)
(*   list  -> [t |-> "list", v |-> sequence of values]                     *)
(*   dict  -> [t |-> "obj",  v |-> sequence of <<key, value>> pairs, in    *)
(*            insertion order, keys pairwise different]                    *)
(* A str is the sequence of its characters, so that str.strip, json.dumps  *)
(* and the f-strings are computed character by character.                  *)
(***************************************************************************)
EXTENDS Integers, Sequences, FiniteSets, TLC

VARIABLES
    history,            \* st.session_state.history
    instructions_input, \* the sidebar's "System instructions" text area
    USE_SIDEBAR,        \* the sidebar's checkbox
    pc,                 \* position of the script run
    submit,             \* st.form_submit_button("Send") in this run
    user_input,         \* st.text_area("Message") in this run
    clear_clicked,      \* st.sidebar.button('Clear chat history') in this run
    messages,           \* the script's local `messages`
    payload,            \* what requests.post was given in this run (json=payload)
    outcome,            \* what requests.post did in this run
    assistant_text,     \* the script's local `assistant_text`
    h0,                 \* history: the history when this run started
    events              \* history: the appends and posts of this run, in order

vars == <<history, instructions_input, USE_SIDEBAR, pc, submit, user_input,
          clear_clicked, messages, payload, outcome, assistant_text, h0, events>>

-----------------------------------------------------------------------------
(* Bounds of the model *)

\* longest text typed into the message box
MaxLen == 2
\* accepted submits between two clears
MaxExchanges == 2

-----------------------------------------------------------------------------
(* Python values *)

JNull == [t |-> "null", v |-> FALSE]
JBool(b) == [t |-> "bool", v |-> b]
JNum(n) == [t |-> "num", v |-> n]
JStr(s) == [t |-> "str", v |-> s]
JList(s) == [t |-> "list", v |-> s]
JObj(kvs) == [t |-> "obj", v |-> kvs]

\* a local that has not been assigned in this run
NotSet == [t |-> "unset", v |-> FALSE]

\* isinstance(x, str) / isinstance(x, dict) / isinstance(x, list)
isinstance(x, ty) == x.t = ty

\* bool(x): Python's truth value
Truthy(x) ==
    CASE x.t = "null" -> FALSE
      [] x.t = "bool" -> x.v
      [] x.t = "num"  -> x.v # 0
      [] OTHER        -> Len(x.v) > 0

\* `k in d` for a dict d
HasKey(d, k) == \E i \in 1..Len(d.v) : d.v[i][1] = k

\* d[k] for a dict d that has k
Get(d, k) == d.v[CHOOSE i \in 1..Len(d.v) : d.v[i][1] = k][2]

\* `for k in ks: if hit(k): return ...`: the position of the first TRUE in
\* hits, 0 if there is none
FirstIndex(hits) ==
    IF \E i \in 1..Len(hits) : hits[i]
    THEN CHOOSE i \in 1..Len(hits) : hits[i] /\ \A j \in 1..(i - 1) : ~hits[j]
    ELSE 0

-----------------------------------------------------------------------------
(* String literals of the source *)

K_output == <<"o","u","t","p","u","t">>
K_result == <<"r","e","s","u","l","t">>
K_response == <<"r","e","s","p","o","n","s","e">>
K_generated_text == <<"g","e","n","e","r","a","t","e","d","_","t","e","x","t">>
K_text == <<"t","e","x","t">>
K_choices == <<"c","h","o","i","c","e","s">>
K_message == <<"m","e","s","s","a","g","e">>
K_content == <<"c","o","n","t","e","n","t">>

\* ('output', 'result', 'response', 'generated_text', 'text')
TopKeys == <<K_output, K_result, K_response, K_generated_text, K_text>>
\* ('content', 'text')
MessageKeys == <<K_content, K_text>>
\* ('text', 'content', 'output')
ChoiceKeys == <<K_text, K_content, K_output>>

-----------------------------------------------------------------------------
(* str(int), json.dumps *)

Digits == <<"0","1","2","3","4","5","6","7","8","9">>

RECURSIVE NatToStr(_)
NatToStr(n) == IF n < 10 THEN <<Digits[n + 1]>>
               ELSE NatToStr(n \div 10) \o <<Digits[(n % 10) + 1]>>

\* str(n), and json.dumps of an int
IntToStr(n) == IF n < 0 THEN <<"-">> \o NatToStr(-n) ELSE NatToStr(n)

\* json.dumps of one character of a str (ensure_ascii; the characters of the model)
EscapeChar(c) ==
    CASE c = "\"" -> <<"\\", "\"">>
      [] c = "\\" -> <<"\\", "\\">>
      [] c = "\n" -> <<"\\", "n">>
      [] c = "\t" -> <<"\\", "t">>
      [] OTHER    -> <<c>>

RECURSIVE EscapeStr(_)
EscapeStr(s) == IF s = <<>> THEN <<>> ELSE EscapeChar(Head(s)) \o EscapeStr(Tail(s))

\* json.dumps of a str
DumpStr(s) == <<"\"">> \o EscapeStr(s) \o <<"\"">>

RECURSIVE json_dumps(_)
RECURSIVE DumpItems(_)
RECURSIVE DumpPairs(_)
\* the elements of a list, separated by ", "
DumpItems(s) ==
    IF s = <<>> THEN <<>>
    ELSE json_dumps(Head(s))
         \o (IF Len(s) > 1 THEN <<",", " ">> \o DumpItems(Tail(s)) ELSE <<>>)
\* the items of a dict as "key": value, separated by ", "
DumpPairs(kvs) ==
    IF kvs = <<>> THEN <<>>
    ELSE DumpStr(Head(kvs)[1]) \o <<":", " ">> \o json_dumps(Head(kvs)[2])
         \o (IF Len(kvs) > 1 THEN <<",", " ">> \o DumpPairs(Tail(kvs)) ELSE <<>>)
\* json.dumps(x) with the default separators
json_dumps(x) ==
    CASE x.t = "null" -> <<"n","u","l","l">>
      [] x.t = "bool" -> IF x.v THEN <<"t","r","u","e">> ELSE <<"f","a","l","s","e">>
      [] x.t = "num"  -> IntToStr(x.v)
      [] x.t = "str"  -> DumpStr(x.v)
      [] x.t = "list" -> <<"[">> \o DumpItems(x.v) \o <<"]">>
      [] x.t = "obj"  -> <<"{">> \o DumpPairs(x.v) \o <<"}">>

-----------------------------------------------------------------------------
(* extract_text_from_response *)

\* TopKeyHit without the truth test of line 62
TopKeyHit_present(rjson, key) == HasKey(rjson, key)

\* lines 61-63: the first top-level key that is present with a truthy value
TopKeyHit(rjson, key) == HasKey(rjson, key) /\ Truthy(Get(rjson, key))
TopKeyIndex(rjson) == FirstIndex([i \in 1..Len(TopKeys) |-> TopKeyHit(rjson, TopKeys[i])])

\* line 63
TopKeyValue(rjson, key) ==
    IF isinstance(Get(rjson, key), "str") THEN Get(rjson, key)
    ELSE JStr(json_dumps(Get(rjson, key)))

\* line 66
HasChoices(rjson) ==
    /\ HasKey(rjson, K_choices)
    /\ isinstance(Get(rjson, K_choices), "list")
    /\ Len(Get(rjson, K_choices).v) > 0

\* MessageValue looking for `content` alone
MessageValue_content_only(choice) ==
    IF /\ HasKey(choice, K_message)
       /\ isinstance(Get(choice, K_message), "obj")
       /\ HasKey(Get(choice, K_message), K_content)
    THEN Get(Get(choice, K_message), K_content)
    ELSE NotSet

\* lines 70-74: the nested message style; NotSet when the loop returns nothing
MessageValue(choice) ==
    IF HasKey(choice, K_message) /\ isinstance(Get(choice, K_message), "obj")
    THEN LET msg == Get(choice, K_message)
             i == FirstIndex([j \in 1..Len(MessageKeys) |-> HasKey(msg, MessageKeys[j])])
         IN  IF i # 0 THEN Get(msg, MessageKeys[i]) ELSE NotSet
    ELSE NotSet

\* lines 75-77; NotSet when the loop returns nothing
ChoiceValue(choice) ==
    LET i == FirstIndex([j \in 1..Len(ChoiceKeys) |-> HasKey(choice, ChoiceKeys[j])])
    IN  IF i # 0 THEN Get(choice, ChoiceKeys[i]) ELSE NotSet

\* lines 66-77; NotSet when control falls through to line 80
ChoicesValue(rjson) ==
    IF HasChoices(rjson)
    THEN LET choice == Get(rjson, K_choices).v[1]
         IN  IF isinstance(choice, "obj")
             THEN IF MessageValue(choice) # NotSet THEN MessageValue(choice)
                  ELSE ChoiceValue(choice)
             ELSE NotSet
    ELSE NotSet

\* extract_text_from_response with the block of lines 66-77 before the loop of lines 61-63
extract_choices_first(rjson) ==
    IF isinstance(rjson, "obj")
    THEN IF ChoicesValue(rjson) # NotSet
         THEN ChoicesValue(rjson)
         ELSE IF TopKeyIndex(rjson) # 0
              THEN TopKeyValue(rjson, TopKeys[TopKeyIndex(rjson)])
              ELSE JStr(json_dumps(rjson))
    ELSE JStr(json_dumps(rjson))

\* lines 58-80. No operation of the try block raises on a parsed JSON value,
\* so the handler of lines 81-82 is not entered.
extract_text_from_response(rjson) ==
    IF isinstance(rjson, "obj")
    THEN IF TopKeyIndex(rjson) # 0
         THEN TopKeyValue(rjson, TopKeys[TopKeyIndex(rjson)])
         ELSE IF ChoicesValue(rjson) # NotSet
              THEN ChoicesValue(rjson)
              ELSE JStr(json_dumps(rjson))
    ELSE JStr(json_dumps(rjson))

-----------------------------------------------------------------------------
(* call_model *)

S_RequestError == <<"R","e","q","u","e","s","t"," ","e","r","r","o","r",":"," ">>
S_Error == <<"E","r","r","o","r"," ">>
S_ColonSpace == <<":"," ">>

\* What requests.post(...) does: it raises (kind "raise", cause = str(e)), or it
\* returns a response with a status code and a body. resp.json() is the parsed
\* body when the body is JSON (parses) and raises ValueError otherwise. The body
\* has been read when post returns and resp.text decodes with replacement, so
\* resp.text does not raise and the handler of lines 113-114 is not entered.
Raised(cause) ==
    [kind |-> "raise", cause |-> cause, status_code |-> 0, parses |-> FALSE,
     text |-> <<>>, json |-> JNull]
TextResponse(status, text) ==
    [kind |-> "response", cause |-> <<>>, status_code |-> status, parses |-> FALSE,
     text |-> text, json |-> JNull]
JsonResponse(status, rjson) ==
    [kind |-> "response", cause |-> <<>>, status_code |-> status, parses |-> TRUE,
     text |-> json_dumps(rjson), json |-> rjson]

\* lines 95-102: the request body
Payload(model, msgs, instructions) ==
    [keys |-> {"model", "messages"}
              \cup (IF Len(instructions) > 0 THEN {"instructions"} ELSE {}),
     model |-> model,
     messages |-> msgs,
     instructions |-> instructions]

\* line 109
IsErrorStatus(status_code) == status_code # 200

\* lines 104-121: the value call_model returns when requests.post did `resp`
call_model(resp) ==
    IF resp.kind = "raise"
    THEN JStr(S_RequestError \o resp.cause)
    ELSE IF IsErrorStatus(resp.status_code)
         THEN JStr(S_Error \o IntToStr(resp.status_code) \o S_ColonSpace \o resp.text)
         ELSE IF ~resp.parses
              THEN JStr(resp.text)
              ELSE extract_text_from_response(resp.json)

-----------------------------------------------------------------------------
(* Configuration, lines 22-40 *)

SYSTEM_INSTRUCTIONS ==
    <<"Y","o","u"," ","a","r","e"," ","a"," ","h","e","l","p","f","u","l"," ",
      "a","s","s","i","s","t","a","n","t",".">>
MODEL_NAME ==
    <<"y","o","u","r","-","g","r","o","q","-","m","o","d","e","l","-","n","a","m","e">>

\* line 40
INSTRUCTIONS == IF USE_SIDEBAR THEN instructions_input ELSE SYSTEM_INSTRUCTIONS
\* line 39; the sidebar's model name keeps its default value
MODEL == MODEL_NAME

-----------------------------------------------------------------------------
(* str.strip, append_message, the message list *)

Whitespace == {" ", "\t", "\n", "\r"}

RECURSIVE lstrip(_)
lstrip(s) == IF s # <<>> /\ Head(s) \in Whitespace THEN lstrip(Tail(s)) ELSE s
RECURSIVE rstrip(_)
rstrip(s) == IF s # <<>> /\ s[Len(s)] \in Whitespace
             THEN rstrip(SubSeq(s, 1, Len(s) - 1)) ELSE s
\* user_input.strip()
strip(s) == rstrip(lstrip(s))

\* {'role': role, 'content': content}
Turn(role, content) == [role |-> role, content |-> content]

\* append_message inserting at the front
append_message_front(h, role, content) == <<Turn(role, content)>> \o h

\* lines 50-51
append_message(h, role, content) == Append(h, Turn(role, content))

\* lines 142-144: the history copied item by item
RECURSIVE CopyTurns(_)
CopyTurns(h) ==
    IF h = <<>> THEN <<>>
    ELSE <<Turn(Head(h).role, Head(h).content)>> \o CopyTurns(Tail(h))

\* BuildMessages sending the last user message alone
BuildMessages_last_only(instructions, h) ==
    (IF Len(instructions) > 0 THEN <<Turn("system", JStr(instructions))>> ELSE <<>>)
    \o CopyTurns(SubSeq(h, Len(h), Len(h)))

\* lines 138-144
BuildMessages(instructions, h) ==
    (IF Len(instructions) > 0 THEN <<Turn("system", JStr(instructions))>> ELSE <<>>)
    \o CopyTurns(h)

-----------------------------------------------------------------------------
(* What the user types and what the endpoint answers *)

Chars == {" ", "a"}
\* every text of at most MaxLen characters
Texts == UNION {[1..n -> Chars] : n \in 0..MaxLen}

\* the texts the sidebar's instructions box is set to
InstructionTexts == {<<>>, <<" ">>, SYSTEM_INSTRUCTIONS}

T_hi == <<"h","i">>
T_oops == <<"o","o","p","s">>
T_refused == <<"r","e","f","u","s","e","d">>
T_exploded == <<"s","e","r","v","e","r"," ","e","x","p","l","o","d","e","d">>

\* {"choices": [{"message": {"content": c}}]}
ChatReply(c) ==
    JObj(<< <<K_choices, JList(<< JObj(<< <<K_message, JObj(<< <<K_content, c>> >>)>> >>) >>)>> >>)

\* the outcomes of requests.post in a session
Outcomes ==
    { Raised(T_refused),
      TextResponse(500, T_exploded),
      TextResponse(200, T_oops),
      JsonResponse(200, ChatReply(JStr(T_hi))),
      JsonResponse(200, ChatReply(JNull)) }

NoOutcome == TextResponse(0, <<>>)
NoPayload == Payload(<<>>, <<>>, <<>>)

-----------------------------------------------------------------------------
(* The session: one script run per interaction *)

Init ==
    /\ history = <<>>
    /\ instructions_input = SYSTEM_INSTRUCTIONS
    /\ USE_SIDEBAR = TRUE
    /\ pc = "idle"
    /\ submit = FALSE
    /\ user_input = <<>>
    /\ clear_clicked = FALSE
    /\ messages = <<>>
    /\ payload = NoPayload
    /\ outcome = NoOutcome
    /\ assistant_text = NotSet
    /\ h0 = <<>>
    /\ events = <<>>

\* a script run starts: its locals are fresh
StartRun(sub, text, clr) ==
    /\ submit' = sub
    /\ user_input' = text
    /\ clear_clicked' = clr
    /\ messages' = <<>>
    /\ payload' = NoPayload
    /\ outcome' = NoOutcome
    /\ assistant_text' = NotSet
    /\ h0' = history
    /\ events' = <<>>
    /\ pc' = "form"

\* the user presses Send with `text` in the message box (lines 130-132)
SubmitForm ==
    /\ pc = "idle"
    /\ \E text \in Texts :
          /\ Len(history) < 2 * MaxExchanges \/ Len(strip(text)) = 0
          /\ StartRun(TRUE, text, FALSE)
    /\ UNCHANGED <<history, instructions_input, USE_SIDEBAR>>

\* the user presses 'Clear chat history'; the message box holds some text,
\* which this run does not read (submit is False)
ClickClear ==
    /\ pc = "idle"
    /\ \E text \in {<<>>, <<" ">>, <<"a">>} : StartRun(FALSE, text, TRUE)
    /\ UNCHANGED <<history, instructions_input, USE_SIDEBAR>>

\* the user edits the sidebar (lines 33-35)
ChangeSidebar ==
    /\ pc = "idle"
    /\ \E ins \in InstructionTexts, use \in BOOLEAN :
          /\ <<ins, use>> # <<instructions_input, USE_SIDEBAR>>
          /\ instructions_input' = ins
          /\ USE_SIDEBAR' = use
    /\ StartRun(FALSE, <<>>, FALSE)
    /\ UNCHANGED history

\* Accepted without the strip
Accepted_unstripped == submit /\ Len(user_input) > 0

\* line 134
Accepted == submit /\ Len(strip(user_input)) > 0

\* lines 134-135
AcceptSubmit ==
    /\ pc = "form"
    /\ Accepted
    /\ history' = append_message(history, "user", JStr(strip(user_input)))
    /\ events' = Append(events, "append user")
    /\ pc' = "build"
    /\ UNCHANGED <<instructions_input, USE_SIDEBAR, submit, user_input, clear_clicked,
                   messages, payload, outcome, assistant_text, h0>>

\* line 134, the condition false
SkipSubmit ==
    /\ pc = "form"
    /\ ~Accepted
    /\ pc' = "clear"
    /\ UNCHANGED <<history, instructions_input, USE_SIDEBAR, submit, user_input,
                   clear_clicked, messages, payload, outcome, assistant_text, h0, events>>

\* lines 138-144
PrepareMessages ==
    /\ pc = "build"
    /\ messages' = BuildMessages(INSTRUCTIONS, history)
    /\ pc' = "call"
    /\ UNCHANGED <<history, instructions_input, USE_SIDEBAR, submit, user_input,
                   clear_clicked, payload, outcome, assistant_text, h0, events>>

\* CallModel posting a second time after a transport failure
CallModel_retry ==
    /\ pc = "call"
    /\ \E resp \in Outcomes :
          /\ outcome' = resp
          /\ assistant_text' = call_model(resp)
          /\ events' = IF resp.kind = "raise" THEN events \o <<"post", "post">>
                       ELSE Append(events, "post")
    /\ payload' = Payload(MODEL, messages, INSTRUCTIONS)
    /\ pc' = "append"
    /\ UNCHANGED <<history, instructions_input, USE_SIDEBAR, submit, user_input,
                   clear_clicked, messages, h0>>

\* lines 147-148: call_model posts once and returns
CallModel ==
    /\ pc = "call"
    /\ \E resp \in Outcomes :
          /\ outcome' = resp
          /\ assistant_text' = call_model(resp)
    /\ payload' = Payload(MODEL, messages, INSTRUCTIONS)
    /\ events' = Append(events, "post")
    /\ pc' = "append"
    /\ UNCHANGED <<history, instructions_input, USE_SIDEBAR, submit, user_input,
                   clear_clicked, messages, h0>>

\* AppendAssistant dropping the reply of a failed request
AppendAssistant_unless_failed ==
    /\ pc = "append"
    /\ history' = IF outcome.kind = "raise" THEN history
                  ELSE append_message(history, "assistant", assistant_text)
    /\ events' = Append(events, "append assistant")
    /\ pc' = "clear"
    /\ UNCHANGED <<instructions_input, USE_SIDEBAR, submit, user_input, clear_clicked,
                   messages, payload, outcome, assistant_text, h0>>

\* line 150
AppendAssistant ==
    /\ pc = "append"
    /\ history' = append_message(history, "assistant", assistant_text)
    /\ events' = Append(events, "append assistant")
    /\ pc' = "clear"
    /\ UNCHANGED <<instructions_input, USE_SIDEBAR, submit, user_input, clear_clicked,
                   messages, payload, outcome, assistant_text, h0>>

\* lines 165-166
ClearHistory ==
    /\ pc = "clear"
    /\ clear_clicked
    /\ history' = <<>>
    /\ pc' = "rerun"
    /\ UNCHANGED <<instructions_input, USE_SIDEBAR, submit, user_input, clear_clicked,
                   messages, payload, outcome, assistant_text, h0, events>>

\* line 167: the script runs again, no widget pressed
Rerun ==
    /\ pc = "rerun"
    /\ StartRun(FALSE, user_input, FALSE)
    /\ UNCHANGED <<history, instructions_input, USE_SIDEBAR>>

\* line 165, the button not pressed: the run ends and the page waits
EndRun ==
    /\ pc = "clear"
    /\ ~clear_clicked
    /\ submit' = FALSE
    /\ user_input' = <<>>
    /\ messages' = <<>>
    /\ payload' = NoPayload
    /\ outcome' = NoOutcome
    /\ assistant_text' = NotSet
    /\ h0' = <<>>
    /\ events' = <<>>
    /\ pc' = "idle"
    /\ UNCHANGED <<history, instructions_input, USE_SIDEBAR, clear_clicked>>

Next ==
    \/ SubmitForm
    \/ ClickClear
    \/ ChangeSidebar
    \/ AcceptSubmit
    \/ SkipSubmit
    \/ PrepareMessages
    \/ CallModel
    \/ AppendAssistant
    \/ ClearHistory
    \/ Rerun
    \/ EndRun

Spec == Init /\ [][Next]_vars

-----------------------------------------------------------------------------
(* call_model and extract_text_from_response on their own: the replies *)

K_foo == <<"f","o","o">>
K_nested == <<"n","e","s","t","e","d">>
K_role == <<"r","o","l","e">>
T_bar == <<"b","a","r">>

\* {"nested": 1}
NestedObj == JObj(<< <<K_nested, JNum(1)>> >>)

\* falsy and truthy values of every type
LeafValues ==
    { JNull, JBool(FALSE), JBool(TRUE), JNum(0), JNum(1), JStr(<<>>), JStr(<<"a">>),
      JStr(<<"\"">>), JList(<<>>), JList(<<JNum(1), JStr(<<"a">>)>>), JObj(<<>>), NestedObj }

\* no item, or one item `key: v`
Opt(key, values) == {<<>>} \cup { << <<key, v>> >> : v \in values }

\* the items of a top-level object other than `choices`
TopItems ==
    { << <<K_foo, JStr(T_bar)>> >> }
    \cup UNION { Opt(TopKeys[i], LeafValues) : i \in 1..Len(TopKeys) }
    \cup { << <<TopKeys[i], v>>, <<TopKeys[j], w>> >> :
             i \in 1..Len(TopKeys), j \in 1..Len(TopKeys),
             v \in {JStr(<<>>), JNull, JStr(<<"x">>), NestedObj},
             w \in {JStr(<<"y">>), JNum(0), JList(<<JNum(1)>>)} }

\* the top-level items put beside a `choices` item
TopItemsBesideChoices ==
    { <<>>,
      << <<K_foo, JStr(T_bar)>> >>,
      << <<K_output, JStr(<<"x">>)>> >>,
      << <<K_output, JStr(<<>>)>> >>,
      << <<K_result, JNum(0)>> >>,
      << <<K_response, NestedObj>> >>,
      << <<K_text, JNull>>, <<K_generated_text, JStr(<<"y">>)>> >> }

\* the `message` item of a choice
MessageItems ==
    Opt(K_message,
        { JNull, JStr(<<"m">>), JList(<<>>), JObj(<<>>),
          JObj(<< <<K_role, JStr(<<"r">>)>> >>),
          JObj(<< <<K_text, JStr(<<"m","t">>)>> >>),
          JObj(<< <<K_text, JNull>> >>),
          JObj(<< <<K_content, JStr(T_hi)>>, <<K_text, JStr(<<"m","t">>)>> >>),
          JObj(<< <<K_text, JStr(<<"m","t">>)>>, <<K_content, JStr(T_hi)>> >>) }
        \cup { JObj(<< <<K_content, c>> >>) :
                 c \in {JStr(T_hi), JStr(<<>>), JNull, JNum(1), JList(<<JNum(1)>>), NestedObj} })

\* the first element of `choices`
Choices ==
    { JNull, JStr(<<"a">>), JNum(1), JList(<<>>) }
    \cup { JObj(m \o t \o c \o o) :
             m \in MessageItems,
             t \in Opt(K_text, {JStr(<<"t">>), JNull}),
             c \in Opt(K_content, {JStr(<<"c">>), JNum(7)}),
             o \in Opt(K_output, {JStr(<<"o">>), NestedObj}) }

\* the `choices` item of a top-level object
ChoicesItems ==
    Opt(K_choices,
        { JNull, JStr(<<"a">>), JObj(<<>>), JList(<<>>) }
        \cup { JList(<<c>>) : c \in Choices }
        \cup { JList(<<c, JObj(<< <<K_text, JStr(<<"2">>)>> >>)>>) :
                 c \in {JNull, JObj(<< <<K_text, JStr(<<"t">>)>> >>)} })

\* the parsed bodies: any JSON value
JsonInputs ==
    LeafValues
    \cup { JObj(top) : top \in TopItems }
    \cup { JObj(top \o ch) : top \in TopItemsBesideChoices, ch \in ChoicesItems }
    \cup { JObj(<< <<K_choices, JList(<<c>>)>>, <<K_output, JStr(<<"x">>)>> >>) :
             c \in {JObj(<< <<K_text, JStr(<<"t">>)>> >>)} }

Statuses == {199, 200, 201, 204, 299, 300, 404, 500}

\* the outcomes of requests.post
FnOutcomes ==
    { Raised(c) : c \in {<<>>, T_refused} }
    \cup { TextResponse(st, b) : st \in Statuses, b \in {<<>>, T_oops, T_exploded} }
    \cup { JsonResponse(st, j) : st \in Statuses,
             j \in {ChatReply(JStr(T_hi)), JObj(<< <<K_output, JStr(<<"x">>)>> >>), JNum(1)} }
    \cup { JsonResponse(200, j) : j \in JsonInputs }

InitFn ==
    /\ history = <<>>
    /\ instructions_input = SYSTEM_INSTRUCTIONS
    /\ USE_SIDEBAR = TRUE
    /\ pc = "fn"
    /\ submit = FALSE
    /\ user_input = <<>>
    /\ clear_clicked = FALSE
    /\ messages = <<>>
    /\ payload = NoPayload
    /\ outcome \in FnOutcomes
    /\ assistant_text = NotSet
    /\ h0 = <<>>
    /\ events = <<>>

\* call_model is applied to the outcome
FnCallModel ==
    /\ pc = "fn"
    /\ assistant_text' = call_model(outcome)
    /\ pc' = "called"
    /\ UNCHANGED <<history, instructions_input, USE_SIDEBAR, submit, user_input,
                   clear_clicked, messages, payload, outcome, h0, events>>

\* extract_text_from_response is applied to the parsed body
FnExtract ==
    /\ pc = "fn"
    /\ outcome.kind = "response"
    /\ outcome.parses
    /\ assistant_text' = extract_text_from_response(outcome.json)
    /\ pc' = "extracted"
    /\ UNCHANGED <<history, instructions_input, USE_SIDEBAR, submit, user_input,
                   clear_clicked, messages, payload, outcome, h0, events>>

NextFn ==
    \/ FnCallModel
    \/ FnExtract

SpecFn == InitFn /\ [][NextFn]_vars

-----------------------------------------------------------------------------
(* The statements, in the words of the specification *)

\* the parsed body and the value returned, once extraction has been applied
Extracted == pc = "extracted"
rjson0 == outcome.json

\* `choices` is a non-empty list
NonEmptyChoices(r) ==
    /\ r.t = "obj"
    /\ HasKey(r, K_choices)
    /\ Get(r, K_choices).t = "list"
    /\ Get(r, K_choices).v # <<>>
FirstChoice(r) == Get(r, K_choices).v[1]

\* present with one of "", 0, false, null, [], {}
Falsy(x) == x \in {JStr(<<>>), JNum(0), JBool(FALSE), JNull, JList(<<>>), JObj(<<>>)}

\* the top-level keys present with a truthy value, as positions of the fixed order
TruthyTop(r) ==
    { i \in 1..5 :
        LET k == <<K_output, K_result, K_response, K_generated_text, K_text>>[i]
        IN  HasKey(r, k) /\ ~Falsy(Get(r, k)) }
\* the value of rule 2: the first such key's value, a non-string JSON-serialized
TopRuleValue(r) ==
    LET i == CHOOSE i \in TruthyTop(r) : \A j \in TruthyTop(r) : i <= j
        x == Get(r, <<K_output, K_result, K_response, K_generated_text, K_text>>[i])
    IN  IF x.t = "str" THEN x ELSE JStr(json_dumps(x))

\* the first key present on d among ks, where one is
AnyOf(d, ks) == \E i \in 1..Len(ks) : HasKey(d, ks[i])
FirstOf(d, ks) ==
    Get(d, ks[CHOOSE i \in 1..Len(ks) : HasKey(d, ks[i]) /\ \A j \in 1..(i - 1) : ~HasKey(d, ks[j])])

\* the choice has a `message` that is an object holding one of ks
MessageHolds(c, ks) ==
    /\ HasKey(c, K_message)
    /\ Get(c, K_message).t = "obj"
    /\ AnyOf(Get(c, K_message), ks)

\* rule 1 as the specification states it: message.content, else the first of
\* text, content, output on the element
Rule1Yields(c) ==
    /\ c.t = "obj"
    /\ MessageHolds(c, <<K_content>>) \/ AnyOf(c, <<K_text, K_content, K_output>>)
Rule1Value(c) ==
    IF MessageHolds(c, <<K_content>>) THEN Get(Get(c, K_message), K_content)
    ELSE FirstOf(c, <<K_text, K_content, K_output>>)

\* rule 1 with message.text after message.content
Rule1YieldsWithText(c) ==
    /\ c.t = "obj"
    /\ MessageHolds(c, <<K_content, K_text>>) \/ AnyOf(c, <<K_text, K_content, K_output>>)
Rule1ValueWithText(c) ==
    IF MessageHolds(c, <<K_content, K_text>>)
    THEN FirstOf(Get(c, K_message), <<K_content, K_text>>)
    ELSE FirstOf(c, <<K_text, K_content, K_output>>)

\* C1 as stated: the choices rule is applied before the top-level-key rule: an
\* object whose first choice yields a value under rule 1 is answered with that
\* value, also when it carries a truthy top-level key.
C1_ChoicesBeforeTopKeys ==
    (Extracted /\ NonEmptyChoices(rjson0) /\ Rule1Yields(FirstChoice(rjson0)))
        => assistant_text = Rule1Value(FirstChoice(rjson0))

\* C1 as amended: the top-level-key rule is applied before the choices rule: an
\* object with a non-empty `choices` list that carries a truthy top-level key is
\* answered with that key's value, and the value of the choices rule
\* (message.content, else message.text, else the first of text, content, output
\* on the element) is returned only when no top-level key is truthy.
C1_TopKeysBeforeChoices ==
    (Extracted /\ NonEmptyChoices(rjson0) /\ Rule1YieldsWithText(FirstChoice(rjson0)))
        => assistant_text = IF TruthyTop(rjson0) # {} THEN TopRuleValue(rjson0)
                            ELSE Rule1ValueWithText(FirstChoice(rjson0))

\* a truthy top-level key beside a choice that yields another value: the key wins
C1_Witness ==
    /\ Extracted
    /\ NonEmptyChoices(rjson0)
    /\ Rule1Yields(FirstChoice(rjson0))
    /\ TruthyTop(rjson0) # {}
    /\ assistant_text = TopRuleValue(rjson0)
    /\ assistant_text # Rule1Value(FirstChoice(rjson0))

\* C8 as stated: with no truthy top-level key, the first choice's message.content
\* is the result when the message is an object holding `content`; otherwise the
\* result is the first key present on the choice among text, content, output,
\* even if the message has other keys such as `text`.
C8_MessageContentOnly ==
    (/\ Extracted
     /\ NonEmptyChoices(rjson0)
     /\ TruthyTop(rjson0) = {}
     /\ Rule1Yields(FirstChoice(rjson0)))
        => assistant_text = Rule1Value(FirstChoice(rjson0))

\* C8 as amended: with no truthy top-level key, the result is message.content
\* when the message is an object holding `content`, else message.text when the
\* message is an object holding `text`, else (message absent, not an object, or
\* holding neither) the first key present on the choice among text, content, output.
C8_MessageContentThenText ==
    (/\ Extracted
     /\ NonEmptyChoices(rjson0)
     /\ TruthyTop(rjson0) = {}
     /\ Rule1YieldsWithText(FirstChoice(rjson0)))
        => assistant_text = Rule1ValueWithText(FirstChoice(rjson0))

\* a message with `text` and no `content` on a choice that has its own `text`
C8_Witness ==
    /\ Extracted
    /\ NonEmptyChoices(rjson0)
    /\ TruthyTop(rjson0) = {}
    /\ FirstChoice(rjson0).t = "obj"
    /\ MessageHolds(FirstChoice(rjson0), <<K_text>>)
    /\ ~MessageHolds(FirstChoice(rjson0), <<K_content>>)
    /\ HasKey(FirstChoice(rjson0), K_text)
    /\ assistant_text = Get(Get(FirstChoice(rjson0), K_message), K_text)
    /\ assistant_text # Get(FirstChoice(rjson0), K_text)

\* C9: an object without a non-empty `choices` list is answered with the first
\* of output, result, response, generated_text, text that is present and truthy
\* (a string unchanged, another value JSON-serialized), and with the JSON
\* serialization of the whole value when there is none.
C9_TopKeysThenFallback ==
    (Extracted /\ rjson0.t = "obj" /\ ~NonEmptyChoices(rjson0))
        => assistant_text = IF TruthyTop(rjson0) # {} THEN TopRuleValue(rjson0)
                            ELSE JStr(json_dumps(rjson0))

\* a falsy first key is skipped and a later non-string value is serialized
C9_Witness ==
    /\ Extracted
    /\ rjson0.t = "obj"
    /\ ~NonEmptyChoices(rjson0)
    /\ \E i \in 1..5 : /\ HasKey(rjson0, TopKeys[i])
                       /\ Falsy(Get(rjson0, TopKeys[i]))
                       /\ \E j \in TruthyTop(rjson0) : i < j
    /\ assistant_text = JStr(<<"[", "1", "]">>)

\* C2: call_model returns "Error <status>: <body>" exactly when the status is
\* outside 200-299; a response with a 2xx status goes on to JSON parsing and,
\* when it parses, to extraction.
C2_ErrorIffNot2xx ==
    (pc = "called" /\ outcome.kind = "response")
        => assistant_text =
             IF outcome.status_code \in 200..299
             THEN IF outcome.parses THEN extract_text_from_response(outcome.json)
                  ELSE JStr(outcome.text)
             ELSE JStr(<<"E","r","r","o","r"," ">> \o IntToStr(outcome.status_code)
                       \o <<":"," ">> \o outcome.text)

\* C3: whatever requests.post did, the value returned by call_model and by
\* extract_text_from_response is a string.
C3_AlwaysAString ==
    pc \in {"called", "extracted"} => assistant_text.t = "str"

-----------------------------------------------------------------------------
(* The statements about the session *)

\* s holds a character that is not whitespace
NonBlank(s) == \E i \in 1..Len(s) : s[i] \notin {" ", "\t", "\n", "\r"}

\* t is s without its leading and trailing whitespace
IsTrimOf(t, s) ==
    /\ t # <<>>
    /\ t[1] \notin {" ", "\t", "\n", "\r"}
    /\ t[Len(t)] \notin {" ", "\t", "\n", "\r"}
    /\ \E i \in 0..(Len(s) - Len(t)) :
          /\ SubSeq(s, i + 1, i + Len(t)) = t
          /\ \A j \in (1..i) \cup ((i + Len(t) + 1)..Len(s)) : s[j] \in {" ", "\t", "\n", "\r"}

\* a user turn holding the trimmed text of the message box
IsUserTurnOf(turn, s) ==
    /\ turn.role = "user"
    /\ turn.content.t = "str"
    /\ IsTrimOf(turn.content.v, s)

\* the request of this run has been posted
Posted == Len(events) >= 2

\* C4: the `messages` sent by an accepted submit are one system turn with the
\* instructions iff the instructions are non-empty, then every turn stored since
\* the last reset, oldest first, then the new user turn as the last element.
C4_MessagesSent ==
    Posted =>
        LET m == payload.messages
            off == IF INSTRUCTIONS # <<>> THEN 1 ELSE 0
        IN  /\ Len(m) = off + Len(h0) + 1
            /\ off = 1 => m[1] = [role |-> "system", content |-> JStr(INSTRUCTIONS)]
            /\ \A i \in 1..Len(h0) : m[off + i] = h0[i]
            /\ IsUserTurnOf(m[Len(m)], user_input)

\* a request with a system turn, an earlier exchange and the new user turn
C4_Witness ==
    /\ pc = "append"
    /\ Len(h0) = 2
    /\ INSTRUCTIONS = <<" ">>
    /\ Len(payload.messages) = 4
    /\ payload.messages[3] = h0[2]
    /\ h0[2].content = JNull

\* C5: every step leaves the history unchanged, or extends it by one turn at
\* the end with the earlier turns unchanged, or empties it; the step of the
\* clear button leaves it empty.
C5_AppendOrClear ==
    [][ /\ \/ history' = history
           \/ /\ Len(history') = Len(history) + 1
              /\ SubSeq(history', 1, Len(history)) = history
           \/ history' = <<>>
        /\ (pc = "clear" /\ clear_clicked) => history' = <<>> ]_vars

\* the clear button has emptied a history of two exchanges
C5_Witness ==
    /\ pc = "rerun"
    /\ Len(h0) = 4
    /\ history = <<>>

\* C6: a submit whose text is empty or only whitespace appends no turn and
\* posts nothing.
C6_BlankSubmitIsNoOp ==
    (submit /\ ~NonBlank(user_input))
        => /\ history = h0
           /\ events = <<>>
           /\ payload = NoPayload
           /\ outcome = NoOutcome

\* a whitespace-only submit has been handled with a history in place
C6_Witness ==
    /\ pc = "clear"
    /\ submit
    /\ user_input = <<" ", " ">>
    /\ Len(history) = 2
    /\ history = h0

Alternating(h) ==
    /\ Len(h) % 2 = 0
    /\ \A i \in 1..Len(h) : h[i].role = IF i % 2 = 1 THEN "user" ELSE "assistant"

\* C10: between interactions the history has even length and alternates user,
\* assistant from a user turn, with no system turn; every request sent has at
\* most one system message, at index 0, and ends with a user message.
C10_AlternatingRoles ==
    /\ pc = "idle" => Alternating(history)
    /\ Posted =>
          LET m == payload.messages
          IN  /\ Len(m) >= 1
              /\ \A i \in 2..Len(m) : m[i].role # "system"
              /\ m[Len(m)].role = "user"

\* two exchanges, the first one failed, seen between interactions
C10_Witness ==
    /\ pc = "idle"
    /\ Len(history) = 4
    /\ history[2].content = JStr(S_RequestError \o T_refused)
    /\ history[4].content = JStr(T_hi)

====
